---- MODULE Spec2Model ----
(***************************************************************************)
(* Session handling of the admin dashboard: the credential triple kept in  *)
(* localStorage (tokenService.ts), the zustand auth store (authStore), the *)
(* token-manager hook (useTokenManager), the TokenManager component that   *)
(* listens for 'auth:session-expired', and the axios interceptors of the   *)
(* HTTP client.                                                            *)
(*                                                                         *)
(* Execution model: one JavaScript event loop.  Every action below is one  *)
(* task together with the promise continuations (microtasks) it runs: a    *)
(* user event, a timer firing, or the arrival of one HTTP response.  The   *)
(* re-render that follows a change of isAuthenticated and the effect of    *)
(* useTokenManager that it flushes run before the next task, so they are   *)
(* part of the action that changes isAuthenticated.                        *)
(*                                                                         *)
(* The remote API is an external collaborator: every response status is a  *)
(* nondeterministic choice.  A 200 answer of the login and refresh         *)
(* endpoints carries the token triple its declared response type names.    *)
(***************************************************************************)
EXTENDS Integers, FiniteSets, Sequences

(* ---------------------------- bounds ----------------------------------- *)
MaxIssue == 2        \* token triples the server issues in one behaviour
MaxTicks == 1        \* clock advances in one behaviour
NumRequests == 1     \* API requests the views send in one behaviour
TickMs == 60000      \* milliseconds the clock advances in one step
MaxClockSteps == 8   \* clock advances in one behaviour of SpecTokens
ClockStepMs == 30000 \* milliseconds the clock advances in one step of SpecTokens
MaxIdleTicks == 1    \* idle periods in one behaviour of SpecIdle

(* ------------------------ program constants ---------------------------- *)
INACTIVITY_TIMEOUT == 15 * 60 * 1000
TOKEN_REFRESH_BUFFER == 2 * 60 * 1000

(* ---------------------------- inputs ----------------------------------- *)
ExpiresInChoices == {60, 180}          \* expiresIn (seconds) the server may answer
Requests == 1..NumRequests
Urls == {"api", "auth"}                \* "auth": the url includes "/auth/"
NoResponse == 0                        \* error.response is undefined
HttpStatuses == {200, 401, 403, 500, NoResponse}
\* answers to POST /auth/login: << status, error.code >>
LoginAnswers == {<< 200, "none" >>, << 401, "none" >>, << NoResponse, "ERR_NETWORK" >>}
\* every kind of answer authService.login tells apart
AllLoginAnswers ==
  LoginAnswers \cup {<< 403, "none" >>, << 422, "none" >>, << 500, "none" >>,
                     << NoResponse, "ECONNABORTED" >>}
Absent == 0                            \* a token key that is not in localStorage
NoItem == << >>                        \* getItem('tokenExpiry') of a missing key

VARIABLES
  now,        \* Date.now(), milliseconds
  ls,         \* localStorage: accessToken, refreshToken, tokenExpiry
  store,      \* useAuthStore state
  loginPc,    \* "idle" or "pending": the POST /auth/login of store.login
  nextIssue,  \* server: number of the next issued token triple
  hook,       \* refs of useTokenManager, its timers and its pending call
  reqs,       \* API requests sent through httpClient, with their interceptor state
  signals,    \* history: session-expired notifications shown in this session
  last        \* history: what the last step's handler was given and returned

vars == << now, ls, store, loginPc, nextIssue, hook, reqs, signals, last >>

(* ------------------------ pure helpers --------------------------------- *)
Max(a, b) == IF a >= b THEN a ELSE b

RECURSIVE ToString(_)
\* Number.prototype.toString() of a non-negative integer, as decimal digits
ToString(n) == IF n < 10 THEN << n >> ELSE Append(ToString(n \div 10), n % 10)

RECURSIVE ParseInt(_)
\* parseInt() of a string of decimal digits
ParseInt(s) == IF Len(s) = 0 THEN 0
               ELSE 10 * ParseInt(SubSeq(s, 1, Len(s) - 1)) + s[Len(s)]

\* how the refresh callers classify the answer of the refresh endpoint
StatusClass(status) ==
  IF status = 200 THEN "ok"
  ELSE IF status = 401 \/ status = 403 THEN "auth"
  ELSE "transient"

(* ------------------------ tokenService.ts ------------------------------ *)
NoCreds == [accessToken |-> Absent, refreshToken |-> Absent, tokenExpiry |-> NoItem]

\* storeTokens taking expiresIn for milliseconds
storeTokens_Millis(accessToken, refreshToken, expiresIn, t) ==
  [accessToken |-> accessToken, refreshToken |-> refreshToken,
   tokenExpiry |-> ToString(t + expiresIn)]

\* storeTokens storing the lifetime in place of the time of expiry
storeTokens_Duration(accessToken, refreshToken, expiresIn, t) ==
  [accessToken |-> accessToken, refreshToken |-> refreshToken,
   tokenExpiry |-> ToString(expiresIn * 1000)]

storeTokens(accessToken, refreshToken, expiresIn, t) ==
  [accessToken |-> accessToken, refreshToken |-> refreshToken,
   tokenExpiry |-> ToString(t + expiresIn * 1000)]

\* clearTokens without removeItem('tokenExpiry')
clearTokens_KeepsExpiry(l) ==
  [l EXCEPT !.accessToken = Absent, !.refreshToken = Absent]

clearTokens(l) ==
  [l EXCEPT !.accessToken = Absent, !.refreshToken = Absent, !.tokenExpiry = NoItem]

\* isTokenExpired comparing with > in place of >=
isTokenExpired_Strict(l, t) ==
  IF l.tokenExpiry = NoItem THEN TRUE ELSE t > ParseInt(l.tokenExpiry)

isTokenExpired(l, t) ==
  IF l.tokenExpiry = NoItem THEN TRUE ELSE t >= ParseInt(l.tokenExpiry)

\* getTimeUntilExpiry without Math.max(0, ...)
getTimeUntilExpiry_NoClamp(l, t) ==
  IF l.tokenExpiry = NoItem THEN 0 ELSE ParseInt(l.tokenExpiry) - t

getTimeUntilExpiry(l, t) ==
  IF l.tokenExpiry = NoItem THEN 0 ELSE Max(0, ParseInt(l.tokenExpiry) - t)

(* ------------------------ timers --------------------------------------- *)
\* hook.timers is the set of pending setTimeout entries of the hook.  held
\* marks the entry whose handle is the current value of the ref of its kind
\* (refreshTimeoutRef / inactivityTimeoutRef); a ref whose timer has fired
\* or was cleared holds a handle that clearTimeout ignores.
clearTimeout(T, kind) == {x \in T : ~(x.kind = kind /\ x.held)}

\* ref.current = setTimeout(callback, delay)
setTimeout(T, kind, t, delay) ==
  {[x EXCEPT !.held = IF x.kind = kind THEN FALSE ELSE @] : x \in T}
    \cup {[kind |-> kind, due |-> t + delay, held |-> TRUE]}

(* ------------------------ useTokenManager ------------------------------ *)
\* an inactivity callback that cancels the proactive timer
inactivityCallback_CancelsRefresh(h) ==
  [h EXCEPT !.timers = clearTimeout(@, "refresh")]

\* the callback updateActivity gives to setTimeout: its body is empty
inactivityCallback(h) == h

\* updateActivity without the write of lastActivityRef
updateActivity_NoTimestamp(h, t) ==
  [h EXCEPT !.timers = setTimeout(clearTimeout(@, "inactivity"), "inactivity",
                                  t, INACTIVITY_TIMEOUT)]

updateActivity(h, t) ==
  [h EXCEPT !.lastActivityRef = t,
            !.timers = setTimeout(clearTimeout(@, "inactivity"), "inactivity",
                                  t, INACTIVITY_TIMEOUT)]

\* scheduleTokenRefresh without the clearTimeout of the armed timer
scheduleTokenRefresh_NoClear(h, closureAuth, l, t) ==
  LET refreshTime == Max(0, getTimeUntilExpiry(l, t) - TOKEN_REFRESH_BUFFER)
  IN IF ~closureAuth THEN h
     ELSE [h EXCEPT !.timers = setTimeout(@, "refresh", t, refreshTime)]

\* scheduleTokenRefresh arming the timer for the expiry itself, without
\* subtracting TOKEN_REFRESH_BUFFER
scheduleTokenRefresh_NoBuffer(h, closureAuth, l, t) ==
  LET cleared == [h EXCEPT !.timers = clearTimeout(@, "refresh")]
      refreshTime == Max(0, getTimeUntilExpiry(l, t))
  IN IF ~closureAuth THEN cleared
     ELSE [cleared EXCEPT !.timers = setTimeout(@, "refresh", t, refreshTime)]

\* closureAuth: the isAuthenticated the calling closure captured at its render
scheduleTokenRefresh(h, closureAuth, l, t) ==
  LET cleared == [h EXCEPT !.timers = clearTimeout(@, "refresh")]
      refreshTime == Max(0, getTimeUntilExpiry(l, t) - TOKEN_REFRESH_BUFFER)
  IN IF ~closureAuth THEN cleared
     ELSE [cleared EXCEPT !.timers = setTimeout(@, "refresh", t, refreshTime)]

\* the effect's clean-up followed by its body for isAuthenticated = false
effectUnauthenticated(h) ==
  [h EXCEPT !.timers = clearTimeout(clearTimeout(@, "refresh"), "inactivity"),
            !.listening = FALSE]

\* the effect's body for isAuthenticated = true
effectAuthenticated(h, l, t) ==
  scheduleTokenRefresh(updateActivity([h EXCEPT !.listening = TRUE], t), TRUE, l, t)

\* the effect of useTokenManager, flushed when isAuthenticated changed
useTokenManagerEffect(h, wasAuth, isAuth, l, t) ==
  IF wasAuth = isAuth THEN h
  ELSE IF isAuth THEN effectAuthenticated(h, l, t)
  ELSE effectUnauthenticated(h)

\* performTokenRefresh without the test of the stored refresh token
performStart_NoTokenCheck(h, l) ==
  IF h.isRefreshingRef THEN "busy" ELSE "send"

\* performTokenRefresh up to its await:
\*   "busy": the guard is taken, returns false
\*   "nocreds": throws 'No refresh token available', caught, returns false
\*   "send": takes the guard and sends POST /auth/tokens/refresh
performStart(h, l) ==
  IF h.isRefreshingRef THEN "busy"
  ELSE IF l.refreshToken = Absent THEN "nocreds"
  ELSE "send"

takeGuard(h, owner) == [h EXCEPT !.isRefreshingRef = TRUE, !.pending = owner]

\* performTokenRefresh without its finally block
releaseGuard_NoRelease(h) == [h EXCEPT !.pending = "none", !.late = FALSE]

\* the finally block of performTokenRefresh
releaseGuard(h) ==
  [h EXCEPT !.isRefreshingRef = FALSE, !.pending = "none", !.late = FALSE]

\* the catch block treating every failure as a rejected refresh token
refreshTokenRejected_AnyError(status) == status # 200

\* the catch block testing for 401 only
refreshTokenRejected_Only401(status) == status = 401

\* the catch block's test for a rejected refresh token
refreshTokenRejected(status) == status = 401 \/ status = 403

\* the rest of the caller after 'await performTokenRefresh()'
afterRefresh(h, owner, refreshed, l, t) ==
  IF owner = "timer" THEN scheduleTokenRefresh(h, TRUE, l, t)
  ELSE IF refreshed THEN scheduleTokenRefresh(h, TRUE, l, t)
  ELSE h

(* ------------------------ authStore ------------------------------------ *)
\* a logout whose set() leaves isAuthenticated as true
storeLogoutState_StaysAuthenticated ==
  [user |-> 0, token |-> Absent, isAuthenticated |-> TRUE,
   loadingState |-> "IDLE", error |-> "null"]

storeLogoutState ==
  [user |-> 0, token |-> Absent, isAuthenticated |-> FALSE,
   loadingState |-> "IDLE", error |-> "null"]

\* store.logout without removeItem('tokenExpiry')
storeLogout_KeepsExpiry(l) ==
  [l EXCEPT !.accessToken = Absent, !.refreshToken = Absent]

\* store.logout: the three removeItem calls
storeLogout(l) ==
  [l EXCEPT !.accessToken = Absent, !.refreshToken = Absent, !.tokenExpiry = NoItem]

(* ------------------------ authService.login ---------------------------- *)
\* the three setItem calls after a 200 answer with tokens
loginStore(accessToken, refreshToken, expiresIn, t) ==
  [accessToken |-> accessToken, refreshToken |-> refreshToken,
   tokenExpiry |-> ToString(t + expiresIn * 1000)]

\* message authService.login throws for a failed POST /auth/login
loginErrorMessage(status, code) ==
  IF status = 401 THEN "Invalid email or password"
  ELSE IF status = 422 THEN "Invalid request format"
  ELSE IF status >= 500 THEN "Server error. Please try again later."
  ELSE IF code = "ECONNABORTED" THEN "Request timeout. Please check your connection."
  ELSE IF code = "ERR_NETWORK" THEN "Network error. Please check CORS settings on the server."
  ELSE IF status = 403 THEN "Request failed with status code 403"
  ELSE "Login failed"

\* the catch block of store.login leaving loadingState as it was
loginFailedState_StillLoading(message) ==
  [user |-> 0, token |-> Absent, isAuthenticated |-> FALSE,
   loadingState |-> "LOADING", error |-> message]

\* the set() of the catch block of store.login
loginFailedState(message) ==
  [user |-> 0, token |-> Absent, isAuthenticated |-> FALSE,
   loadingState |-> "ERROR", error |-> message]

(* ------------------------ httpClient interceptors ---------------------- *)
\* the request interceptor leaving the request's headers as they are
requestInterceptor_NoToken(l, header) == header

\* request interceptor: the Authorization header the request leaves with
requestInterceptor(l, header) ==
  IF l.accessToken # Absent THEN l.accessToken ELSE header

\* the response interceptor without the test of the request's url
responseInterceptor_NoUrlTest(status, retry, url) ==
  IF (status = 401 \/ status = 403) /\ ~retry THEN "refresh" ELSE "reject"

\* the response interceptor without the test of the _retry flag
responseInterceptor_NoRetryFlag(status, retry, url) ==
  IF status = 401 \/ status = 403
  THEN IF url = "auth" THEN "reject" ELSE "refresh"
  ELSE "reject"

\* response interceptor, error branch: what it does with a failed request
\*   "refresh": enters the token-refresh attempt,  "reject": propagates the error
responseInterceptor(status, retry, url) ==
  IF (status = 401 \/ status = 403) /\ ~retry
  THEN IF url = "auth" THEN "reject" ELSE "refresh"
  ELSE "reject"

\* the interceptor's handling of a failed refresh attempt (catch refreshError):
\* TRUE when it clears the stored tokens and dispatches 'auth:session-expired'
refreshErrorExpiresSession(class) == class \in {"auth", "transient", "nocreds"}

\* the interceptor's three setItem calls after a 200 answer of the refresh
interceptorStore(accessToken, refreshToken, expiresIn, t) ==
  [accessToken |-> accessToken, refreshToken |-> refreshToken,
   tokenExpiry |-> ToString(t + expiresIn * 1000)]

\* the catch block without removeItem("refreshToken")
interceptorClear_KeepsRefreshToken(l) ==
  [l EXCEPT !.accessToken = Absent, !.tokenExpiry = NoItem]

\* the three removeItem calls of the interceptor's catch block
interceptorClear(l) ==
  [l EXCEPT !.accessToken = Absent, !.refreshToken = Absent, !.tokenExpiry = NoItem]

\* one more 'Session Expired' toast (TokenManager.handleSessionExpired or
\* the hook's own), counted apart when a rejected refresh token caused it
toast(sig, class) ==
  [shown |-> sig.shown + 1, rejected |-> sig.rejected + (IF class = "auth" THEN 1 ELSE 0)]

(* ------------------------ initial state -------------------------------- *)
InitReq ==
  [pc |-> "idle", url |-> "api", retry |-> FALSE, attempts |-> 0, sent |-> 0, replays |-> 0]

\* a request whose promise has settled
DoneReq == [InitReq EXCEPT !.pc = "done"]

NoSignals == [shown |-> 0, rejected |-> 0]

\* op: the handler, class: the answer it was given, late: a second
\* performTokenRefresh call returned while this one was outstanding,
\* header: the Authorization of the request the step sent,
\* retry: the _retry flag of the answered request when its answer arrived,
\* result: how the promise the step settled was settled (what a call returned),
\* expiresIn: the expiresIn a hook refresh or a storeTokens call was given,
\* at: Date.now() of a storeTokens call,
\* left: the number a getTimeUntilExpiry call returned,
\* by: the trigger of a step of the hook ("activity": handleActivity,
\* "timer": the proactive timer's callback, "idle": the inactivity timer's)
Event(op, class) ==
  [op |-> op, class |-> class, late |-> FALSE, header |-> Absent, retry |-> FALSE,
   result |-> "none", expiresIn |-> 0, at |-> 0, left |-> 0, by |-> "none"]

Nothing == Event("none", "none")

Init ==
  /\ now = 0
  /\ ls = NoCreds
  /\ store = storeLogoutState
  /\ loginPc = "idle"
  /\ nextIssue = 1
  /\ hook = [isRefreshingRef |-> FALSE, lastActivityRef |-> 0, listening |-> FALSE,
             timers |-> {}, pending |-> "none", late |-> FALSE]
  /\ reqs = [r \in Requests |-> InitReq]
  /\ signals = NoSignals
  /\ last = Nothing

(* ------------------------ the clock ------------------------------------ *)
Tick ==
  /\ now + TickMs <= MaxTicks * TickMs
  /\ now' = now + TickMs
  /\ last' = Nothing
  /\ UNCHANGED << ls, store, loginPc, nextIssue, hook, reqs, signals >>

(* ------------------------ login / logout ------------------------------- *)
\* store.login up to the await of authService.login
StartLogin ==
  /\ ~store.isAuthenticated
  /\ loginPc = "idle"
  /\ store' = [store EXCEPT !.loadingState = "LOADING", !.error = "null"]
  /\ loginPc' = "pending"
  /\ last' = [Event("loginStart", "none") EXCEPT !.header = requestInterceptor(ls, Absent)]
  /\ UNCHANGED << now, ls, nextIssue, hook, reqs, signals >>

\* the answer to POST /auth/login: authService.login, then the rest of store.login
LoginRespond(status, code, expiresIn) ==
  /\ loginPc = "pending"
  /\ loginPc' = "idle"
  /\ IF status = 200
     THEN /\ nextIssue <= MaxIssue
          /\ ls' = loginStore(nextIssue, nextIssue, expiresIn, now)
          /\ nextIssue' = nextIssue + 1
          /\ store' = [user |-> 1, token |-> nextIssue, isAuthenticated |-> TRUE,
                       loadingState |-> "SUCCESS", error |-> "null"]
          /\ hook' = useTokenManagerEffect(hook, store.isAuthenticated, TRUE, ls', now)
          /\ signals' = NoSignals
     ELSE /\ responseInterceptor(status, FALSE, "auth") = "reject"
          /\ store' = loginFailedState(loginErrorMessage(status, code))
          /\ hook' = useTokenManagerEffect(hook, store.isAuthenticated, FALSE, ls, now)
          /\ UNCHANGED << ls, nextIssue, signals >>
  /\ last' = [Event("login", StatusClass(status)) EXCEPT
                !.result = IF status = 200 THEN "ok" ELSE "failed"]
  /\ UNCHANGED << now, reqs >>

\* TopBar.handleLogout
Logout ==
  /\ store.isAuthenticated
  /\ ls' = storeLogout(ls)
  /\ store' = storeLogoutState
  /\ hook' = useTokenManagerEffect(hook, store.isAuthenticated, FALSE, ls', now)
  /\ signals' = NoSignals
  /\ last' = Event("logout", "none")
  /\ UNCHANGED << now, loginPc, nextIssue, reqs >>

(* ------------------------ useTokenManager: calls ----------------------- *)
\* a call of performTokenRefresh that returns without awaiting the network
syncCall(kind, l) ==
  IF kind = "send"
  THEN [Event("hookStart", "none") EXCEPT !.header = requestInterceptor(l, Absent)]
  ELSE [Event("hook", kind) EXCEPT !.result = "false"]

\* handleActivity, the listener of the monitored DOM events
Activity ==
  /\ hook.listening
  /\ LET h1 == updateActivity(hook, now)
         kind == performStart(h1, ls)
     IN IF ~isTokenExpired(ls, now)
        THEN /\ hook' = h1
             /\ last' = [Event("activity", "none") EXCEPT !.by = "activity"]
        ELSE /\ hook' = IF kind = "send" THEN takeGuard(h1, "activity")
                        ELSE IF kind = "busy" THEN [h1 EXCEPT !.late = TRUE]
                        ELSE h1
             /\ last' = [syncCall(kind, ls) EXCEPT !.by = "activity"]
  /\ UNCHANGED << now, ls, store, loginPc, nextIssue, reqs, signals >>

\* a pending timer of the hook fires
TimerFire(x) ==
  /\ x \in hook.timers
  /\ x.due <= now
  /\ LET h0 == [hook EXCEPT !.timers = @ \ {x}]
         kind == performStart(h0, ls)
     IN IF x.kind = "inactivity"
        THEN /\ hook' = inactivityCallback(h0)
             /\ last' = [Event("idle", "none") EXCEPT !.by = "idle"]
        ELSE /\ hook' = IF kind = "send" THEN takeGuard(h0, "timer")
                        ELSE IF kind = "busy"
                        THEN afterRefresh([h0 EXCEPT !.late = TRUE], "timer", FALSE, ls, now)
                        ELSE afterRefresh(h0, "timer", FALSE, ls, now)
             /\ last' = [syncCall(kind, ls) EXCEPT !.by = "timer"]
  /\ UNCHANGED << now, ls, store, loginPc, nextIssue, reqs, signals >>

\* the answer to the hook's POST /auth/tokens/refresh: the rest of
\* performTokenRefresh and of its caller
HookRespond(status, expiresIn) ==
  /\ hook.pending # "none"
  /\ IF status = 200
     THEN /\ nextIssue <= MaxIssue
          /\ ls' = storeTokens(nextIssue, nextIssue, expiresIn, now)
          /\ nextIssue' = nextIssue + 1
          /\ hook' = afterRefresh(releaseGuard(hook), hook.pending, TRUE, ls', now)
          /\ UNCHANGED << store, signals >>
     ELSE /\ responseInterceptor(status, FALSE, "auth") = "reject"
          /\ IF refreshTokenRejected(status)
             THEN /\ signals' = toast(signals, "auth")
                  /\ ls' = storeLogout(ls)
                  /\ store' = storeLogoutState
                  /\ hook' = afterRefresh(
                               useTokenManagerEffect(releaseGuard(hook),
                                                     store.isAuthenticated, FALSE, ls', now),
                               hook.pending, FALSE, ls', now)
             ELSE /\ hook' = afterRefresh(releaseGuard(hook), hook.pending, FALSE, ls, now)
                  /\ UNCHANGED << ls, store, signals >>
          /\ UNCHANGED nextIssue
  /\ last' = [Event("hook", StatusClass(status)) EXCEPT
                !.late = hook.late,
                !.result = IF status = 200 THEN "true" ELSE "false",
                !.expiresIn = IF status = 200 THEN expiresIn ELSE 0]
  /\ UNCHANGED << now, loginPc, reqs >>

(* ------------------------ API requests through httpClient -------------- *)
\* a view sends a request; requests are numbered in the order they are sent
SendRequest(r, url) ==
  /\ store.isAuthenticated
  /\ reqs[r].pc = "idle"
  /\ \A q \in Requests : q < r => reqs[q].pc # "idle"
  /\ reqs' = [reqs EXCEPT ![r] = [@ EXCEPT !.pc = "sent", !.url = url]]
  /\ last' = [Event("send", "none") EXCEPT !.header = requestInterceptor(ls, Absent)]
  /\ UNCHANGED << now, ls, store, loginPc, nextIssue, hook, signals >>

\* the interceptor's catch (refreshError) block, and the listener
\* TokenManager.handleSessionExpired that the dispatched event runs
refreshFailed(r, class) ==
  /\ reqs' = [reqs EXCEPT ![r] = DoneReq]
  /\ IF refreshErrorExpiresSession(class)
     THEN /\ ls' = interceptorClear(ls)
          /\ signals' = toast(signals, class)
          /\ store' = storeLogoutState
          /\ hook' = useTokenManagerEffect(hook, store.isAuthenticated, FALSE, ls', now)
     ELSE UNCHANGED << ls, signals, store, hook >>

\* the answer to an API request (original or replayed)
Respond(r, status) ==
  /\ reqs[r].pc = "sent"
  /\ IF status = 200
     THEN /\ reqs' = [reqs EXCEPT ![r] = DoneReq]
          /\ last' = [Event("api", "ok") EXCEPT !.result = "ok", !.retry = reqs[r].retry]
          /\ UNCHANGED << ls, store, hook, signals >>
     ELSE IF responseInterceptor(status, reqs[r].retry, reqs[r].url) = "reject"
     THEN /\ reqs' = [reqs EXCEPT ![r] = DoneReq]
          /\ last' = [Event("api", StatusClass(status)) EXCEPT
                        !.result = "failed", !.retry = reqs[r].retry]
          /\ UNCHANGED << ls, store, hook, signals >>
     ELSE IF ls.refreshToken = Absent
     THEN /\ refreshFailed(r, "nocreds")
          /\ last' = [Event("refresh", "nocreds") EXCEPT !.result = "failed"]
     ELSE /\ reqs' = [reqs EXCEPT ![r] = [@ EXCEPT !.pc = "refreshing", !.retry = TRUE,
                        !.attempts = @ + 1, !.sent = @ + 1]]
          /\ last' = [Event("refreshStart", "none") EXCEPT
                        !.header = requestInterceptor(ls, Absent)]
          /\ UNCHANGED << ls, store, hook, signals >>
  /\ UNCHANGED << now, loginPc, nextIssue >>

\* the answer to the interceptor's POST /auth/tokens/refresh
RefreshRespond(r, status, expiresIn) ==
  /\ reqs[r].pc = "refreshing"
  /\ IF status = 200
     THEN /\ nextIssue <= MaxIssue
          /\ ls' = interceptorStore(nextIssue, nextIssue, expiresIn, now)
          /\ nextIssue' = nextIssue + 1
          /\ reqs' = [reqs EXCEPT ![r] = [@ EXCEPT !.pc = "sent", !.replays = @ + 1]]
          /\ last' = [Event("refresh", "ok") EXCEPT
                        !.header = requestInterceptor(ls', nextIssue)]
          /\ UNCHANGED << store, hook, signals >>
     ELSE /\ responseInterceptor(status, FALSE, "auth") = "reject"
          /\ refreshFailed(r, StatusClass(status))
          /\ last' = [Event("refresh", StatusClass(status)) EXCEPT !.result = "failed"]
          /\ UNCHANGED nextIssue
  /\ UNCHANGED << now, loginPc >>

(* ------------------------ specification -------------------------------- *)
Next ==
  \/ Tick
  \/ StartLogin
  \/ \E a \in LoginAnswers, e \in ExpiresInChoices : LoginRespond(a[1], a[2], e)
  \/ Logout
  \/ Activity
  \/ \E x \in hook.timers : TimerFire(x)
  \/ \E s \in HttpStatuses, e \in ExpiresInChoices : HookRespond(s, e)
  \/ \E r \in Requests, u \in Urls : SendRequest(r, u)
  \/ \E r \in Requests, s \in HttpStatuses : Respond(r, s)
  \/ \E r \in Requests, s \in HttpStatuses, e \in ExpiresInChoices :
       RefreshRespond(r, s, e)

Spec == Init /\ [][Next]_vars
(* ------------------------ derived state -------------------------------- *)
\* requests to the token-refresh endpoint that have not been answered
RefreshOutstanding ==
  (IF hook.pending # "none" THEN 1 ELSE 0)
    + Cardinality({r \in Requests : reqs[r].pc = "refreshing"})

Refreshing(rs) == {r \in Requests : rs[r].pc = "refreshing"}

\* a step in which performTokenRefresh is called while the guard is free
HookAttempt == hook.pending = "none" /\ last'.op \in {"hook", "hookStart"}

\* a step in which the interceptor enters its refresh attempt
InterceptorAttempt ==
  /\ last'.op \in {"refresh", "refreshStart"}
  /\ Refreshing(reqs) \subseteq Refreshing(reqs')

(* ------------------------ properties ----------------------------------- *)
\* C1: once logout has cleared the credentials, the three stored fields stay
\* absent until the next login, also when a refresh request that was in
\* flight at the logout resolves successfully afterwards.
C1_PostLogoutSafety ==
  [][(~store.isAuthenticated /\ ls = NoCreds /\ last'.op # "login") => ls' = NoCreds]_vars

\* C2: a performTokenRefresh call made while an earlier one is outstanding
\* gets the same outcome as the earlier one (the late call returned false, so
\* the outstanding call returns false as well).
C2_SameOutcome ==
  (last.op = "hook" /\ last.late) => last.result = "false"

\* C3: at most one request to the token-refresh endpoint is outstanding,
\* whichever triggers started the refreshes.
C3_SingleFlight == RefreshOutstanding <= 1

\* C4: a 401/403 on a non-auth request whose retry flag is unset starts one
\* refresh attempt (one refresh request when a refresh token is stored); a
\* successful refresh replays the request once with the newly issued access
\* token; a 401/403 on the replay is propagated with no refresh and no replay.
C4_RetryBound ==
  [][\A r \in Requests :
       /\ reqs'[r].attempts <= 1 /\ reqs'[r].sent <= 1 /\ reqs'[r].replays <= 1
       /\ (reqs[r].pc = "sent" /\ reqs'[r] # reqs[r] /\ last'.class = "auth"
           /\ reqs[r].url = "api" /\ ~reqs[r].retry)
          => /\ last'.op \in {"refreshStart", "refresh"}
             /\ last'.op = "refreshStart" =>
                  reqs'[r] = [reqs[r] EXCEPT !.pc = "refreshing", !.retry = TRUE,
                                             !.attempts = 1, !.sent = 1]
       /\ (reqs[r].pc # "refreshing" /\ reqs'[r].pc = "refreshing")
          => reqs[r].pc = "sent" /\ ~reqs[r].retry /\ reqs[r].url = "api"
       /\ (reqs[r].pc = "refreshing" /\ reqs'[r] # reqs[r] /\ last'.class = "ok")
          => /\ reqs'[r] = [reqs[r] EXCEPT !.pc = "sent", !.replays = 1]
             /\ reqs'[r].retry
             /\ ls'.accessToken = nextIssue /\ nextIssue' = nextIssue + 1
             /\ last'.header = ls'.accessToken
       /\ (reqs[r].pc # "refreshing" /\ reqs'[r].pc = "sent" /\ reqs[r].pc = "sent")
          => reqs'[r] = reqs[r]
       /\ (reqs[r].pc = "sent" /\ reqs[r].retry /\ reqs'[r] # reqs[r])
          => /\ reqs'[r].pc = "done"
             /\ last'.op = "api" /\ last'.retry
             /\ last'.class # "ok" => last'.result = "failed"
             /\ Refreshing(reqs') = Refreshing(reqs)
             /\ UNCHANGED << ls, store, hook, signals, nextIssue >>]_vars

\* C4 witness: a replayed request that carried the newly issued token was
\* answered 401/403 again and its failure was propagated.
C4_Witness ==
  /\ last.op = "api" /\ last.class = "auth" /\ last.retry /\ last.result = "failed"
  /\ store.isAuthenticated /\ ls.accessToken > store.token

\* C5: a refresh started by the interceptor that fails with a network error,
\* a timeout or a 5xx leaves the stored credentials unchanged, emits no
\* session-expired signal and leaves isAuthenticated as it was.
C5_TransientKeepsSession ==
  [][(last'.op = "refresh" /\ last'.class = "transient")
       => (ls' = ls /\ signals' = signals
           /\ store'.isAuthenticated = store.isAuthenticated)]_vars

\* C6: a performTokenRefresh whose request fails with anything but 401/403
\* returns false, writes no stored credential field, does not call logout
\* and shows no notification.
C6_HookTransient ==
  [][(last'.op = "hook" /\ last'.class = "transient")
       => (last'.result = "false" /\ ls' = ls /\ store' = store
           /\ signals' = signals /\ ~hook'.isRefreshingRef)]_vars

\* C6 witness: a hook refresh of an authenticated session has just failed
\* with a transient error.
C6_Witness ==
  /\ last.op = "hook" /\ last.class = "transient"
  /\ store.isAuthenticated /\ ls # NoCreds

C8_HookAuthFailure ==
  [][(last'.op = "hook" /\ last'.class = "auth")
       => (/\ ls' = NoCreds
           /\ ~store'.isAuthenticated
           /\ last'.result = "false"
           /\ hook'.pending = "none"
           /\ Refreshing(reqs') = Refreshing(reqs)
           /\ signals'.shown = signals.shown + 1)]_vars

\* C8 witness: the hook's refresh of an authenticated session was rejected.
C8_Witness ==
  /\ last.op = "hook" /\ last.class = "auth"
  /\ ls = NoCreds /\ ~store.isAuthenticated /\ signals.rejected = 1

\* C9: a 401/403 answer to the interceptor's refresh request propagates the
\* original failure without replay, clears the three stored fields,
\* dispatches 'auth:session-expired', and the listener sets isAuthenticated
\* to false.
C9_TransportAuthFailure ==
  [][(last'.op = "refresh" /\ last'.class = "auth")
       => (/\ last'.result = "failed"
           /\ \A r \in Requests :
                reqs'[r] # reqs[r] => (reqs[r].pc = "refreshing" /\ reqs'[r].pc = "done")
           /\ ls' = NoCreds
           /\ signals'.shown = signals.shown + 1
           /\ signals'.rejected = signals.rejected + 1
           /\ ~store'.isAuthenticated)]_vars

\* C9 witness: the interceptor's refresh was rejected while the session was
\* authenticated.
C9_Witness ==
  /\ last.op = "refresh" /\ last.class = "auth" /\ last.result = "failed"
  /\ ls = NoCreds /\ ~store.isAuthenticated /\ signals.shown = 1

\* C10: in one session at most one session-expired notification is shown
\* for a rejected refresh token.
C10_SignalOnce == signals.rejected <= 1

\* the hook's pending proactive-refresh timers
RefreshTimers(h) == {x \in h.timers : x.kind = "refresh"}

\* C11: when the refresh started by the proactive timer is answered 401/403,
\* the proactive timer is not armed again.
C11_NoReschedule ==
  [][(hook.pending = "timer" /\ last'.op = "hook" /\ last'.class = "auth")
       => RefreshTimers(hook') = {}]_vars

\* the timer the current value of refreshTimeoutRef names, when it is pending
HeldRefreshTimers(h) == {x \in RefreshTimers(h) : x.held}

\* C12: scheduleTokenRefresh arms the proactive timer max(0, timeUntilExpiry
\* - 2 minutes) ahead; the timer's firing starts the refresh; a successful
\* refresh re-arms the timer from the newly stored expiry; so while the
\* session is authenticated and more than 2 minutes of token lifetime remain,
\* either the timer's refresh is outstanding or a timer is armed that is due
\* no later than 2 minutes before the expiry.
C12_ProactiveCycle ==
  [][/\ \A x \in HeldRefreshTimers(hook') \ HeldRefreshTimers(hook) :
          x.due = now' + Max(0, getTimeUntilExpiry(ls', now') - TOKEN_REFRESH_BUFFER)
     /\ (/\ hook.pending = "none" /\ ls.refreshToken # Absent
         /\ last'.op \in {"hook", "hookStart"} /\ hook'.pending # "activity")
        => (hook'.pending = "timer" /\ last'.op = "hookStart")
     /\ (hook.pending = "timer" /\ last'.op = "hook" /\ last'.class = "ok")
        => /\ ls'.accessToken = nextIssue
           /\ \E x \in HeldRefreshTimers(hook') :
                x.due = Max(now', ParseInt(ls'.tokenExpiry) - TOKEN_REFRESH_BUFFER)
     /\ (store'.isAuthenticated
         /\ getTimeUntilExpiry(ls', now') > TOKEN_REFRESH_BUFFER)
        => \/ hook'.pending = "timer"
           \/ \E x \in HeldRefreshTimers(hook') :
                x.due <= ParseInt(ls'.tokenExpiry) - TOKEN_REFRESH_BUFFER]_vars

\* C12 witness: a refresh has succeeded in an authenticated session and the
\* proactive timer is armed 2 minutes before the expiry of the new token.
C12_Witness ==
  /\ last.op = "hook" /\ last.result = "true"
  /\ store.isAuthenticated /\ ls.accessToken > store.token
  /\ \E x \in HeldRefreshTimers(hook) :
       x.due = ParseInt(ls.tokenExpiry) - TOKEN_REFRESH_BUFFER /\ x.due > now

\* C13: a 401/403 answer to a request to an auth endpoint starts no refresh
\* request, clears no stored credential and emits no session-expired signal:
\* the interceptor only propagates the error.
C13_AuthEndpointsExempt ==
  [][\A r \in Requests :
       (reqs[r].pc = "sent" /\ reqs[r].url = "auth" /\ reqs'[r] # reqs[r])
       => /\ last'.op = "api"
          /\ last'.class = "auth" => last'.result = "failed"
          /\ reqs'[r].pc = "done"
          /\ RefreshOutstanding' = RefreshOutstanding
          /\ UNCHANGED << ls, store, hook, signals, nextIssue >>]_vars

\* C13 witness: a first answer 401/403 was propagated while credentials are
\* stored; the interceptor does that for a request to an auth endpoint only.
C13_Witness ==
  /\ last.op = "api" /\ last.class = "auth" /\ ~last.retry /\ last.result = "failed"
  /\ store.isAuthenticated /\ ls.refreshToken # Absent

(* ------------------------ the store's public refreshToken -------------- *)
\* 'mock-jwt-token-' + Date.now(): a token no server response carries
MockToken(t) == 0 - (t + 1)

\* the two setItem calls of store.refreshToken
storeRefreshWrite(l, t) ==
  [l EXCEPT !.accessToken = MockToken(t), !.tokenExpiry = ToString(t + 3600 * 1000)]

\* store.refreshToken, an action of useAuthStore that no component of the
\* application calls; it has no await, so it runs as one task
StoreRefreshToken ==
  /\ IF ls.refreshToken = Absent
     THEN /\ ls' = storeLogout(ls)
          /\ store' = storeLogoutState
          /\ hook' = useTokenManagerEffect(hook, store.isAuthenticated, FALSE, ls', now)
          /\ last' = [Event("storeRefresh", "nocreds") EXCEPT !.result = "failed"]
     ELSE /\ ls' = storeRefreshWrite(ls, now)
          /\ store' = [store EXCEPT !.token = MockToken(now)]
          /\ last' = [Event("storeRefresh", "ok") EXCEPT !.result = "ok"]
          /\ UNCHANGED hook
  /\ UNCHANGED << now, loginPc, nextIssue, reqs, signals >>

NextApi ==
  \/ Next
  \/ StoreRefreshToken

\* the application together with the store action it exports but never calls
SpecApi == Init /\ [][NextApi]_vars

\* C14: the stored accessToken, refreshToken and tokenExpiry are all absent,
\* or all present and of the same issuance.
C14_TripleAtomic ==
  \/ ls = NoCreds
  \/ /\ ls.accessToken # Absent /\ ls.refreshToken # Absent /\ ls.tokenExpiry # NoItem
     /\ ls.accessToken = ls.refreshToken

\* C15: logout, invoked while the token is valid, expired or being
\* refreshed, leaves the three stored fields absent and isAuthenticated
\* false right after the call; a later successful login stores a new
\* unexpired triple and sets isAuthenticated.
C15_LogoutAnyState ==
  [][/\ last'.op = "logout"
          => (ls' = NoCreds /\ ~store'.isAuthenticated /\ store'.token = Absent)
     /\ (last'.op = "login" /\ last'.class = "ok")
          => /\ store'.isAuthenticated
             /\ ls'.accessToken = nextIssue /\ ls'.refreshToken = nextIssue
             /\ ~isTokenExpired(ls', now')]_vars

\* C15 witness: logout has just been invoked with a refresh request
\* outstanding.
C15_Witness ==
  /\ last.op = "logout" /\ RefreshOutstanding > 0
  /\ ls = NoCreds /\ ~store.isAuthenticated

\* C16: every request sent through the HTTP client carries the access token
\* stored at the moment it is sent, and no bearer credential when none is
\* stored; the replay after a successful refresh carries the new token, not
\* the superseded one.
C16_BearerCurrent ==
  [][/\ last'.op \in {"send", "refreshStart", "hookStart", "loginStart"}
          => (last'.header = ls.accessToken /\ ls' = ls)
     /\ (last'.op = "refresh" /\ last'.class = "ok")
          => /\ last'.header = ls'.accessToken
             /\ ls'.accessToken = nextIssue
             /\ last'.header # ls.accessToken]_vars

\* C16 witness: a request was replayed after the interceptor's refresh and
\* carried the token that refresh stored.
C16_Witness ==
  /\ last.op = "refresh" /\ last.class = "ok"
  /\ last.header = ls.accessToken /\ last.header > store.token
  /\ store.isAuthenticated

\* C17: a 200 answer to the hook's refresh stores the returned accessToken
\* and refreshToken and tokenExpiry = time of storing + expiresIn seconds;
\* isTokenExpired() is then false and the call returns true.
C17_RefreshSuccess ==
  [][(last'.op = "hook" /\ last'.class = "ok")
       => /\ ls'.accessToken = nextIssue /\ ls'.refreshToken = nextIssue
          /\ last'.expiresIn \in ExpiresInChoices
          /\ ParseInt(ls'.tokenExpiry) = now' + last'.expiresIn * 1000
          /\ ~isTokenExpired(ls', now')
          /\ last'.result = "true"
          /\ ~hook'.isRefreshingRef]_vars

\* C17 witness: the hook's refresh of an authenticated session was answered
\* 200 with expiresIn = 180 and the new triple is stored.
C17_Witness ==
  /\ last.op = "hook" /\ last.result = "true" /\ last.expiresIn = 180
  /\ store.isAuthenticated /\ ls.accessToken = nextIssue - 1
  /\ ParseInt(ls.tokenExpiry) = now + 180000

(* ------------------------ tokenService.ts on its own ------------------- *)
\* The functions of tokenService.ts called in any order at any time: Init
\* is the empty localStorage at time 0, every action is one call or one
\* advance of the clock.  last keeps expiresIn and at of the latest
\* storeTokens call until the next storeTokens or clearTokens call.
TokensTick ==
  /\ now + ClockStepMs <= MaxClockSteps * ClockStepMs
  /\ now' = now + ClockStepMs
  /\ last' = [last EXCEPT !.op = "tick"]
  /\ UNCHANGED << ls, store, loginPc, nextIssue, hook, reqs, signals >>

TokensStore(expiresIn) ==
  /\ nextIssue <= MaxIssue
  /\ ls' = storeTokens(nextIssue, nextIssue, expiresIn, now)
  /\ nextIssue' = nextIssue + 1
  /\ last' = [Event("storeTokens", "ok") EXCEPT !.expiresIn = expiresIn, !.at = now]
  /\ UNCHANGED << now, store, loginPc, hook, reqs, signals >>

TokensClear ==
  /\ ls' = clearTokens(ls)
  /\ last' = Event("clearTokens", "none")
  /\ UNCHANGED << now, store, loginPc, nextIssue, hook, reqs, signals >>

TokensIsExpired ==
  /\ last' = [last EXCEPT !.op = "isTokenExpired",
                          !.result = IF isTokenExpired(ls, now) THEN "true" ELSE "false"]
  /\ UNCHANGED << now, ls, store, loginPc, nextIssue, hook, reqs, signals >>

TokensTimeLeft ==
  /\ last' = [last EXCEPT !.op = "getTimeUntilExpiry",
                          !.left = getTimeUntilExpiry(ls, now)]
  /\ UNCHANGED << now, ls, store, loginPc, nextIssue, hook, reqs, signals >>

NextTokens ==
  \/ TokensTick
  \/ \E e \in ExpiresInChoices : TokensStore(e)
  \/ TokensClear
  \/ TokensIsExpired
  \/ TokensTimeLeft

SpecTokens == Init /\ [][NextTokens]_vars

\* C18: after any sequence of storeTokens calls, isTokenExpired() is false
\* right after a call with expiresIn = E > 0 and is true exactly from the
\* moment the clock has advanced by E seconds since the latest call; the
\* expiry of an earlier call plays no part.
C18_ExpiryFollowsLatestStore ==
  last.expiresIn > 0 =>
    /\ isTokenExpired(ls, now) <=> (now >= last.at + last.expiresIn * 1000)
    /\ now = last.at => ~isTokenExpired(ls, now)
    /\ last.op = "isTokenExpired" =>
         (last.result = "true" <=> now >= last.at + last.expiresIn * 1000)

\* C18 witness: storeTokens was called twice, the second time with
\* expiresIn = 180 at a later time, and the clock has since advanced by
\* 180 s: isTokenExpired() has just returned true.
C18_Witness ==
  /\ last.op = "isTokenExpired" /\ last.result = "true"
  /\ last.expiresIn = 180 /\ last.at > 0 /\ ls.accessToken = 2
  /\ now >= last.at + 180000 /\ now < last.at + 180000 + ClockStepMs

\* C19: isTokenExpired() returns true exactly when no tokenExpiry is stored
\* or the current time is >= the stored tokenExpiry, and the call changes no
\* stored field and no session state.
C19_IsTokenExpired ==
  [][last'.op = "isTokenExpired" =>
       /\ (last'.result = "true") <=>
            (\/ ls.tokenExpiry = NoItem
             \/ (last.expiresIn > 0 /\ now >= last.at + last.expiresIn * 1000))
       /\ last'.result \in {"true", "false"}
       /\ UNCHANGED << now, ls, store, loginPc, nextIssue, hook, reqs, signals >>]_vars

\* C19 witness: isTokenExpired() returned true at the very millisecond of
\* the stored tokenExpiry.
C19_Witness ==
  /\ last.op = "isTokenExpired" /\ last.result = "true"
  /\ ls.tokenExpiry # NoItem /\ ParseInt(ls.tokenExpiry) = now

\* C20: getTimeUntilExpiry() returns max(0, tokenExpiry - now) when a
\* tokenExpiry is stored and 0 when none is; the result is never negative and
\* is 0 exactly when isTokenExpired() is true.
C20_TimeUntilExpiry ==
  [][last'.op = "getTimeUntilExpiry" =>
       /\ last'.left = (IF ls.tokenExpiry = NoItem THEN 0
                        ELSE Max(0, last.at + last.expiresIn * 1000 - now))
       /\ last'.left >= 0
       /\ (last'.left = 0) <=> isTokenExpired(ls, now)
       /\ UNCHANGED << now, ls >>]_vars

\* C20 witness: getTimeUntilExpiry() returned 0 for a token that expired one
\* clock step or more ago.
C20_Witness ==
  /\ last.op = "getTimeUntilExpiry" /\ last.left = 0
  /\ ls.tokenExpiry # NoItem /\ ParseInt(ls.tokenExpiry) < now

\* C21: clearTokens leaves accessToken, refreshToken and tokenExpiry absent
\* from any stored state; a second call in a row yields the same state as
\* the first, and a call with nothing stored changes nothing.
C21_ClearIdempotent ==
  [][last'.op = "clearTokens" =>
       /\ ls' = NoCreds
       /\ clearTokens(ls') = ls'
       /\ clearTokens(clearTokens(ls)) = clearTokens(ls)
       /\ ls = NoCreds => ls' = ls
       /\ UNCHANGED << now, store, nextIssue >>]_vars

\* C21 witness: clearTokens has just been called on a stored triple.
C21_Witness ==
  /\ last.op = "clearTokens" /\ nextIssue > 1 /\ ls = NoCreds

\* C22: handleActivity runs only while the user is authenticated; it sets
\* lastActivity to the current time and starts a refresh exactly when
\* isTokenExpired() is true and no hook refresh is outstanding; with an
\* unexpired token it sends nothing; it never changes a stored credential.
C22_ActivityRefresh ==
  [][/\ hook'.listening <=> store'.isAuthenticated
     /\ last'.by = "activity" =>
          /\ store.isAuthenticated /\ ls.refreshToken # Absent
          /\ hook'.lastActivityRef = now
          /\ (hook'.pending # hook.pending)
               <=> (isTokenExpired(ls, now) /\ hook.pending = "none")
          /\ (hook'.pending # hook.pending)
               <=> (last'.op = "hookStart" /\ hook'.pending = "activity")
          /\ RefreshOutstanding' =
               RefreshOutstanding + (IF hook'.pending # hook.pending THEN 1 ELSE 0)
          /\ UNCHANGED << ls, store, reqs, signals, nextIssue >>]_vars

\* C22 witness: a user interaction with an expired token has just started
\* the hook's refresh.
C22_Witness ==
  /\ last.by = "activity" /\ last.op = "hookStart" /\ hook.pending = "activity"
  /\ store.isAuthenticated /\ isTokenExpired(ls, now) /\ hook.lastActivityRef = now

(* ------------------------ an idle session ------------------------------ *)
\* the user leaves the application alone for INACTIVITY_TIMEOUT
IdleTick ==
  /\ now + INACTIVITY_TIMEOUT <= MaxIdleTicks * INACTIVITY_TIMEOUT + MaxTicks * TickMs
  /\ now' = now + INACTIVITY_TIMEOUT
  /\ last' = Nothing
  /\ UNCHANGED << ls, store, loginPc, nextIssue, hook, reqs, signals >>

\* login, logout and the hook, with a clock that reaches the inactivity
\* timeout; no view sends an API request
NextIdle ==
  \/ Tick
  \/ IdleTick
  \/ StartLogin
  \/ \E a \in LoginAnswers, e \in ExpiresInChoices : LoginRespond(a[1], a[2], e)
  \/ Logout
  \/ Activity
  \/ \E x \in hook.timers : TimerFire(x)
  \/ \E s \in HttpStatuses, e \in ExpiresInChoices : HookRespond(s, e)

SpecIdle == Init /\ [][NextIdle]_vars

\* C23: the firing of the inactivity timer changes no stored credential and
\* not isAuthenticated, starts no refresh, emits no session-expired signal
\* and leaves the proactive timer as it is.
C23_IdleChangesNothing ==
  [][last'.by = "idle" =>
       /\ UNCHANGED << now, ls, store, loginPc, nextIssue, reqs, signals >>
       /\ hook'.pending = hook.pending
       /\ hook'.isRefreshingRef = hook.isRefreshingRef
       /\ hook'.listening = hook.listening
       /\ RefreshTimers(hook') = RefreshTimers(hook)
       /\ RefreshOutstanding' = RefreshOutstanding]_vars

\* C23 witness: the inactivity timer has fired in an authenticated session
\* whose token expired during the idle period.
C23_Witness ==
  /\ last.by = "idle" /\ store.isAuthenticated /\ ls # NoCreds
  /\ isTokenExpired(ls, now) /\ now >= hook.lastActivityRef + INACTIVITY_TIMEOUT

\* httpClient is created with timeout: 10000, so the hook's refresh request
\* is answered or fails within 10 seconds
SpecHookFair ==
  /\ Init /\ [][NextIdle]_vars
  /\ WF_vars(\E s \in HttpStatuses, e \in ExpiresInChoices : HookRespond(s, e))

\* C24: a hook refresh that fails transiently leaves the session
\* authenticated with its credentials, the guard released and the proactive
\* timer armed; from then on a timer firing, or a user activity with an
\* expired token, starts a new refresh request; and every refresh attempt
\* that takes the guard eventually releases it.
C24_RetryEligible ==
  /\ [][/\ (hook.pending # "none" /\ last'.op = "hook" /\ last'.class = "transient")
           => /\ ls' = ls /\ store' = store
              /\ ~hook'.isRefreshingRef /\ hook'.pending = "none"
              /\ (store.isAuthenticated
                   => (hook'.listening /\ HeldRefreshTimers(hook') # {}))
        /\ (store.isAuthenticated /\ hook.pending = "none" /\ last'.by = "timer")
           => (last'.op = "hookStart" /\ hook'.pending = "timer")
        /\ (store.isAuthenticated /\ hook.pending = "none" /\ isTokenExpired(ls, now)
            /\ last'.by = "activity")
           => (last'.op = "hookStart" /\ hook'.pending = "activity")]_vars
  /\ (hook.isRefreshingRef ~> ~hook.isRefreshingRef)

\* C24 witness: a hook refresh has failed transiently; the session is
\* authenticated with an expired token, the guard is free and the proactive
\* timer is armed.
C24_Witness ==
  /\ last.op = "hook" /\ last.class = "transient"
  /\ store.isAuthenticated /\ isTokenExpired(ls, now) /\ ls.refreshToken # Absent
  /\ ~hook.isRefreshingRef /\ HeldRefreshTimers(hook) # {}

\* C25: while the session is ended (isAuthenticated false) no proactive
\* refresh timer is armed.
C25_CancelOnTeardown ==
  ~store.isAuthenticated => RefreshTimers(hook) = {}

(* ------------------------ authService.enhancedLogout ------------------- *)
\* the url of the DELETE request enhancedLogout sends
revokeUrl(revokeAll) ==
  IF revokeAll THEN "/auth/tokens/revoke-all" ELSE "/auth/tokens/revoke-session"

\* a finally block that leaves the refresh token stored
enhancedLogoutFinally_KeepsRefreshToken(l) ==
  [l EXCEPT !.accessToken = Absent, !.tokenExpiry = NoItem]

\* the three removeItem calls of the finally block of enhancedLogout
enhancedLogoutFinally(l) ==
  [l EXCEPT !.accessToken = Absent, !.refreshToken = Absent, !.tokenExpiry = NoItem]

\* enhancedLogout up to its await: the DELETE request is sent.  No component
\* of the application calls enhancedLogout.
StartEnhancedLogout(r, revokeAll) ==
  /\ reqs[r].pc = "idle"
  /\ \A q \in Requests : q < r => reqs[q].pc # "idle"
  /\ reqs' = [reqs EXCEPT ![r] = [@ EXCEPT !.pc = "revoking", !.url = "auth"]]
  /\ last' = [Event("revokeStart", "none") EXCEPT
                !.header = requestInterceptor(ls, Absent),
                !.result = revokeUrl(revokeAll)]
  /\ UNCHANGED << now, ls, store, loginPc, nextIssue, hook, signals >>

\* the answer to the DELETE request: the response interceptor, then the
\* catch and finally blocks of enhancedLogout
RevokeRespond(r, status) ==
  /\ reqs[r].pc = "revoking"
  /\ status # 200 => responseInterceptor(status, reqs[r].retry, reqs[r].url) = "reject"
  /\ reqs' = [reqs EXCEPT ![r] = DoneReq]
  /\ ls' = enhancedLogoutFinally(ls)
  /\ last' = [Event("enhancedLogout", StatusClass(status)) EXCEPT !.result = "resolved"]
  /\ UNCHANGED << now, store, loginPc, nextIssue, hook, signals >>

\* login, logout and the hook, together with calls of enhancedLogout
NextRevoke ==
  \/ Tick
  \/ StartLogin
  \/ \E a \in LoginAnswers, e \in ExpiresInChoices : LoginRespond(a[1], a[2], e)
  \/ Logout
  \/ Activity
  \/ \E x \in hook.timers : TimerFire(x)
  \/ \E s \in HttpStatuses, e \in ExpiresInChoices : HookRespond(s, e)
  \/ \E r \in Requests, b \in BOOLEAN : StartEnhancedLogout(r, b)
  \/ \E r \in Requests, s \in HttpStatuses : RevokeRespond(r, s)

SpecRevoke == Init /\ [][NextRevoke]_vars

\* C26: enhancedLogout ends with accessToken, refreshToken and tokenExpiry
\* absent and its promise resolved, whether the revocation request is
\* answered 200, rejected with 401/403 or fails with a network or server
\* error; the rejected revocation starts no refresh.
C26_BestEffortRevocation ==
  [][/\ last'.op = "enhancedLogout"
          => /\ ls' = NoCreds
             /\ last'.result = "resolved"
             /\ RefreshOutstanding' = RefreshOutstanding
             /\ UNCHANGED << store, signals, nextIssue >>
     /\ \A r \in Requests :
          (reqs[r].pc = "revoking" /\ reqs'[r] # reqs[r])
            => (reqs'[r].pc = "done" /\ last'.op = "enhancedLogout")]_vars

\* C26 witness: the revocation request of a logged-in user was rejected with
\* 401/403 and enhancedLogout has cleared the stored triple.
C26_Witness ==
  /\ last.op = "enhancedLogout" /\ last.class = "auth" /\ last.result = "resolved"
  /\ ls = NoCreds /\ store.isAuthenticated

\* C27: a refresh that fails after the stored credentials were replaced by a
\* newer issuance clears nothing and does not end the session.  The step
\* before the failure stored a new triple (a successful refresh or login) and
\* started no refresh, so the failing attempt was sent with an older refresh
\* token.
C27_FailureKeepsNewer ==
  [][(/\ last.op \in {"hook", "refresh", "login"} /\ last.class = "ok"
      /\ last'.op \in {"hook", "refresh"} /\ last'.class \in {"auth", "transient"}
      /\ RefreshOutstanding' < RefreshOutstanding)
       => (ls' = ls /\ store'.isAuthenticated = store.isAuthenticated)]_vars

\* C28: whenever isAuthenticated is true an access token and a refresh token
\* are stored, and every step that clears the stored credentials leaves
\* isAuthenticated false.
C28_ViewCredentialConsistency ==
  [][/\ store'.isAuthenticated
          => (ls'.accessToken # Absent /\ ls'.refreshToken # Absent)
     /\ (ls # NoCreds /\ (ls'.accessToken = Absent \/ ls'.refreshToken = Absent))
          => (~store'.isAuthenticated /\ ~hook'.listening)]_vars

\* C28 witness: the interceptor's refresh of an authenticated session failed
\* with a transient error; the credentials are cleared and the session ended
\* in the same step.
C28_Witness ==
  /\ last.op = "refresh" /\ last.class = "transient"
  /\ ls = NoCreds /\ ~store.isAuthenticated /\ signals.shown = 1 /\ signals.rejected = 0

\* C29: at most one proactive refresh timer is pending at any time.
C29_OneRefreshTimer ==
  Cardinality(RefreshTimers(hook)) <= 1

\* C29 witness: a refresh of the hook succeeded and re-armed the proactive
\* timer, which is the only one pending.
C29_Witness ==
  /\ last.op = "hook" /\ last.result = "true"
  /\ store.isAuthenticated /\ now > 0
  /\ Cardinality(RefreshTimers(hook)) = 1 /\ RefreshTimers(hook) = HeldRefreshTimers(hook)

(* ------------------------ login failures ------------------------------- *)
\* login, logout and the hook, with every kind of answer to POST /auth/login
NextLogin ==
  \/ Tick
  \/ StartLogin
  \/ \E a \in AllLoginAnswers, e \in ExpiresInChoices : LoginRespond(a[1], a[2], e)
  \/ Logout
  \/ Activity
  \/ \E x \in hook.timers : TimerFire(x)
  \/ \E s \in HttpStatuses, e \in ExpiresInChoices : HookRespond(s, e)

SpecLogin == Init /\ [][NextLogin]_vars

\* C30: a failed login (401, 403, 422, 5xx, timeout, network error) leaves
\* the store with isAuthenticated false, no user, no token, loadingState
\* ERROR and a non-empty error message; the interceptor starts no refresh
\* for it and no credential field is written.
C30_FailedLogin ==
  [][(last'.op = "login" /\ last'.class # "ok")
       => /\ ~store'.isAuthenticated /\ store'.user = 0 /\ store'.token = Absent
          /\ store'.loadingState = "ERROR"
          /\ store'.error \notin {"null", ""}
          /\ last'.result = "failed"
          /\ RefreshOutstanding' = RefreshOutstanding
          /\ UNCHANGED << ls, nextIssue, reqs, signals >>]_vars

\* C30 witness: the login request timed out and the store shows the error.
C30_Witness ==
  /\ last.op = "login" /\ last.class = "transient" /\ last.result = "failed"
  /\ store.loadingState = "ERROR"
  /\ store.error = "Request timeout. Please check your connection."
  /\ ls = NoCreds
====
